---- MODULE Spec2Model ----
(***************************************************************************)
(* fractalmake: a model of the domain decomposition engine                 *)
(* (fractals.hpp, fractals.cpp, main.cpp), the escape-time evaluators      *)
(* (options.hpp) and the formula compiler (function_parser.hpp).           *)
(***************************************************************************)
EXTENDS Integers, Sequences, FiniteSets, TLC

(***************************************************************************)
(* Bounds of the model.                                                    *)
(***************************************************************************)
MaxRows == 4
MaxThreads == 2
MaxCalls == 2
\* evaluator inputs: coordinates of points, escape radius, iteration cap
MaxCoord == 1
MaxEscape == 2
MaxIters == 3
\* lengths of the formulas compiled
MaxArithLen == 5
MaxFormulaLen == 5
MaxNameLen == 6
\* splines: number of add_point calls, largest knot
MaxKnots == 3
MaxKnotX == 3

\* Every unsigned quantity of the engine (row and column counts, the cursor,
\* vector indices) stays below 2^20 within the bounds explored, far from the
\* 2^32 wrap-around of `unsigned`, so the arithmetic below is exact.

\* fractals.hpp:14
points_per_thread == 100000

\* Column counts of the regions explored: 2 gives one band for the whole
\* grid, the others give bands of 4, 3, 2 and 1 rows.
ColumnCounts == {2, 30000, 50000, 100000, 100001}

Threads == 1..MaxThreads

VARIABLES
    \* ---- the options record handed to make_fractal (main.cpp:31,57)
    lower_left, upper_right, nacross, nup, num_threads,
    \* ---- fractals.cpp:10-11, the process-wide cursor and its mutex
    domain_start, decomp_mutex,
    \* ---- make_fractal (fractals.hpp:132-151)
    calls,          \* number of make_fractal calls started in this process
    phase,          \* "config" | "rejected" | "main" | "spawning" |
                    \* "joining" | "returned"
    spawned,        \* number of threads pushed onto `threads`
    joined,         \* number of threads joined
    values,         \* f.values, as the row-long index ranges written so far
    issued,         \* history: the bands handed out during the current call
    \* ---- check_points_thread / decompose_domain, per worker
    pc, done, first_row, this_dom, my_slice, row_i,
    \* ---- FunctionParser (function_parser.hpp)
    formula,        \* the string the parser was constructed from
    compiled,       \* what get() produced: a closure or a ParseException
    ppc,            \* "off" | "ready" | "done"
    \* ---- ztestfun / ctestfun (options.hpp:243-291)
    tf,             \* the members: mode, constant, escape, max_iters, func
    point,          \* the argument of operator()
    test, iters,    \* its locals
    ret,            \* the value returned
    epc,            \* "off" | "call" | "loop" | "returned"
    \* ---- Spline (spline.hpp:76-139)
    xs_, ys_,       \* the knots
    coeffs_,        \* one cubic per interval, as the constraints it solves
    sx,             \* the argument of operator()
    sret,           \* the value returned
    spc,            \* "off" | "build" | "calculated" | "evaluated" | "aborted"
    \* ---- get_options (options.hpp:110-162)
    istream,        \* what is left of the option file
    got_options,    \* the array of line 114
    options,        \* the record being filled, in the order of got_options
    seen,           \* history: the option keywords dispatched on so far
    thrown,         \* the type of the exception thrown, or "none"
    opc             \* "off" | "loop" | "returned" | "thrown" | "exit" |
                    \* "terminate"

\* the options record, main.cpp:29-31
opts == <<lower_left, upper_right, nacross, nup, num_threads>>

dvars == <<opts, domain_start, decomp_mutex, calls,
           phase, spawned, joined, values, issued, pc, done, first_row,
           this_dom, my_slice, row_i>>

pvars == <<formula, compiled, ppc>>
evars == <<tf, point, test, iters, ret, epc>>
svars == <<xs_, ys_, coeffs_, sx, sret, spc>>
ovars == <<istream, got_options, options, seen, thrown, opc>>

vars == <<dvars, pvars, evars, svars, ovars>>

(***************************************************************************)
(* The formula compiler, function_parser.hpp.                              *)
(*                                                                         *)
(* A formula is a sequence of one-character strings.  A closure            *)
(* fn<cmplx> is the tree of the lambdas it was composed from: a node       *)
(* [op, num, args] whose op names the lambda body ("+" is                   *)
(* f(z,c) + g(z,c), "neg" is -f(z,c), "z" is identity_fn_z, "num" is        *)
(* constant_fn with the value num, ...) and whose args are the captured    *)
(* closures.                                                               *)
(***************************************************************************)
Node(op, args) == [op |-> op, num |-> <<0, 0>>, args |-> args]
\* constant_fn, lines 180-189; the value is m * 10^p
constant_fn(x) == [op |-> "num", num |-> x, args |-> << >>]
\* lines 153-178
imaginary_unit == Node("I", << >>)
identity_fn_z == Node("z", << >>)
identity_fn_c == Node("c", << >>)

Digits == {"0", "1", "2", "3", "4", "5", "6", "7", "8", "9"}
DigitVal(ch) ==
    CASE ch = "0" -> 0 [] ch = "1" -> 1 [] ch = "2" -> 2 [] ch = "3" -> 3
      [] ch = "4" -> 4 [] ch = "5" -> 5 [] ch = "6" -> 6 [] ch = "7" -> 7
      [] ch = "8" -> 8 [] ch = "9" -> 9

\* a decimal value m * 10^p in lowest terms (m not a multiple of 10)
RECURSIVE Norm(_, _)
Norm(m, p) ==
    IF m = 0 THEN <<0, 0>>
    ELSE IF m % 10 = 0 THEN Norm(m \div 10, p + 1)
    ELSE <<m, p>>

\* std::istringstream: the characters, the read position and good()
Stream(s) == [s |-> s, pos |-> 1, ok |-> TRUE]
EOFc == "EOF"
\* istream::peek: EOF when the stream is not good or is exhausted
peek(st) == IF st.ok /\ st.pos <= Len(st.s) THEN st.s[st.pos] ELSE EOFc
\* istream::get: consumes one character; at the end it sets failbit
get(st) ==
    IF st.ok /\ st.pos <= Len(st.s) THEN [st EXCEPT !.pos = @ + 1]
                                    ELSE [st EXCEPT !.ok = FALSE]

\* lines 18-23
RECURSIVE skip_whitespace(_)
skip_whitespace(st) ==
    IF peek(st) = " " \/ peek(st) = "\t" THEN skip_whitespace(get(st)) ELSE st

Return(f, st) == [f |-> f, st |-> st, ex |-> FALSE]

\* the lambdas of lines 105-112, 128-132 and 147: f(z, c) op g(z, c)
binary_fn_swapped(op, f, g) == Node(op, <<g, f>>)
binary_fn(op, f, g) == Node(op, <<f, g>>)
\* throw ParseException{}
Throw(st) == [f |-> Node("none", << >>), st |-> st, ex |-> TRUE]

(***************************************************************************)
(* parse_number, lines 230-236: stream >> x for a floating-point x.        *)
(* The extraction takes digits, one '.', and after at least one digit an   *)
(* 'e' or 'E' with an optional sign and digits; it stops at the first      *)
(* character that does not fit.  The text converts when the mantissa has a *)
(* digit and an exponent marker is followed by a digit; otherwise x = 0    *)
(* and failbit is set.  acc = [m, frac, seen, dec, sci, esign, e, edig].   *)
(***************************************************************************)
RECURSIVE extract_float(_, _), extract_exponent(_, _)
\* after the exponent marker: an optional sign
extract_exponent(st, acc) ==
    IF peek(st) = "+" \/ peek(st) = "-"
      THEN extract_float(get(st),
               [acc EXCEPT !.sci = TRUE,
                           !.esign = IF peek(st) = "-" THEN -1 ELSE 1])
      ELSE extract_float(st, [acc EXCEPT !.sci = TRUE])

extract_float(st, acc) ==
    IF peek(st) \in Digits THEN
        IF acc.sci
          THEN extract_float(get(st),
                   [acc EXCEPT !.e = @ * 10 + DigitVal(peek(st)),
                               !.edig = TRUE])
          ELSE extract_float(get(st),
                   [acc EXCEPT !.m = @ * 10 + DigitVal(peek(st)),
                               !.seen = TRUE,
                               !.frac = IF acc.dec THEN @ + 1 ELSE @])
    ELSE IF peek(st) = "." /\ ~acc.dec /\ ~acc.sci THEN
        extract_float(get(st), [acc EXCEPT !.dec = TRUE])
    ELSE IF (peek(st) = "e" \/ peek(st) = "E") /\ ~acc.sci /\ acc.seen THEN
        extract_exponent(get(st), acc)
    ELSE [st |-> st, acc |-> acc]

parse_number_result(r) ==
    IF r.acc.seen /\ (r.acc.sci => r.acc.edig)
      THEN Return(constant_fn(Norm(r.acc.m,
                                   r.acc.esign * r.acc.e - r.acc.frac)), r.st)
      ELSE Return(constant_fn(<<0, 0>>), [r.st EXCEPT !.ok = FALSE])

parse_number(st) ==
    parse_number_result(
        extract_float(st, [m |-> 0, frac |-> 0, seen |-> FALSE,
                           dec |-> FALSE, sci |-> FALSE, esign |-> 1,
                           e |-> 0, edig |-> FALSE]))

(***************************************************************************)
(* get_function_name, lines 238-288.  c1 and c2 are the first two          *)
(* characters, s1..s4 the stream after one to four calls of get().         *)
(***************************************************************************)
Named(name, st) == [name |-> name, st |-> st, ex |-> FALSE]
NoName(st) == [name |-> "none", st |-> st, ex |-> TRUE]

function_name_switch(c1, c2, s1, s2, s3, s4) ==
    CASE c1 = "a" ->
           (CASE c2 = "b" -> Named("abs", s3)
              [] c2 = "s" -> Named("asin", s4)
              [] c2 = "c" -> Named("acos", s4)
              [] c2 = "t" -> Named("atan", s4)
              [] OTHER -> NoName(s2))
      [] c1 = "e" -> Named("exp", s3)
      [] c1 = "s" -> IF c2 = "i" THEN Named("sin", s3) ELSE Named("sqrt", s4)
      [] c1 = "c" -> IF c2 # "o" THEN Named("c", s1) ELSE Named("cos", s3)
      [] c1 = "t" -> Named("tan", s3)
      [] c1 = "r" -> Named("real", s4)
      [] c1 = "i" -> Named("imag", s4)
      [] OTHER -> NoName(s1)

get_function_name(st) ==
    function_name_switch(peek(st), peek(get(st)), get(st), get(get(st)),
                         get(get(get(st))), get(get(get(get(st)))))

(***************************************************************************)
(* The recursive descent, lines 96-151, 191-228, 290-341.  Each function   *)
(* is followed by the operators that continue it once a callee has         *)
(* returned r = [f, st, ex]: an exception (ex) propagates to the caller.   *)
(***************************************************************************)
RECURSIVE parse_expr(_), expr_first(_), expr_loop(_, _), expr_next(_, _, _),
          parse_lvl0_term(_), lvl0_first(_), lvl0_loop(_, _),
          lvl0_next(_, _, _), parse_lvl1_term(_), lvl1_first(_),
          lvl1_loop(_, _), lvl1_next(_, _), parse_factor(_),
          factor_switch(_), factor_signed(_, _), parse_number_or_fn(_),
          parse_function(_), function_named(_), function_open(_, _),
          function_argument(_, _), function_close(_, _, _)

\* lines 302-305 and 307-340: the closing ')' and the closure of the call
function_close(name, f, st) ==
    IF peek(st) # ")" THEN Throw(st) ELSE Return(Node(name, <<f>>), get(st))

\* lines 300-301
function_argument(name, r) ==
    IF r.ex THEN r ELSE function_close(name, r.f, skip_whitespace(r.st))

\* lines 296-300
function_open(name, st) ==
    IF peek(st) # "(" THEN Throw(st)
                      ELSE function_argument(name, parse_expr(get(st)))

\* lines 293-296
function_named(n) ==
    IF n.ex THEN Throw(n.st)
    ELSE IF n.name = "c" THEN Return(identity_fn_c, n.st)
    ELSE function_open(n.name, skip_whitespace(n.st))

\* lines 290-341
parse_function(st) == function_named(get_function_name(st))

\* lines 219-228
parse_number_or_fn(st) ==
    IF peek(st) \in Digits \/ peek(st) = "."
      THEN parse_number(st)
      ELSE parse_function(st)

\* lines 200-203: the operand of a sign
factor_signed(sign, r) ==
    IF r.ex THEN r
    ELSE IF sign = "-" THEN Return(Node("neg", <<r.f>>), r.st)
    ELSE r

\* lines 211-213: case '(': stream.get(); return parse_expr<cmplx>();
factor_open_paren(st) == parse_expr(get(st))

\* lines 195-216, with parse_plus_or_minus (lines 71-83)
factor_switch(st) ==
    CASE peek(st) = "+" \/ peek(st) = "-" ->
           factor_signed(peek(st), parse_factor(get(skip_whitespace(st))))
      [] peek(st) = "I" -> Return(imaginary_unit, get(st))
      [] peek(st) = "z" -> Return(identity_fn_z, get(st))
      [] peek(st) = "(" -> factor_open_paren(st)
      [] OTHER -> parse_number_or_fn(st)

\* lines 191-217
parse_factor(st) == factor_switch(skip_whitespace(st))

\* lines 138-151
lvl1_next(f, r) ==
    IF r.ex THEN r
    ELSE lvl1_loop(binary_fn("^", f, r.f), skip_whitespace(r.st))

lvl1_loop(f, st) ==
    IF peek(st) = "^" THEN lvl1_next(f, parse_factor(get(st)))
                      ELSE Return(f, st)

lvl1_first(r) == IF r.ex THEN r ELSE lvl1_loop(r.f, skip_whitespace(r.st))

parse_lvl1_term(st) == lvl1_first(parse_factor(st))

\* lines 119-136
lvl0_next(op, f, r) ==
    IF r.ex THEN r
    ELSE lvl0_loop(binary_fn(op, f, r.f), skip_whitespace(r.st))

lvl0_loop(f, st) ==
    IF peek(st) = "*" \/ peek(st) = "/"
      THEN lvl0_next(peek(st), f, parse_lvl1_term(get(st)))
      ELSE Return(f, st)

lvl0_first(r) == IF r.ex THEN r ELSE lvl0_loop(r.f, skip_whitespace(r.st))

parse_lvl0_term(st) == lvl0_first(parse_lvl1_term(st))

\* lines 96-117
expr_next(op, f, r) ==
    IF r.ex THEN r
    ELSE expr_loop(binary_fn(op, f, r.f), skip_whitespace(r.st))

expr_loop(f, st) ==
    IF peek(st) = "+" \/ peek(st) = "-"
      THEN expr_next(peek(st), f, parse_lvl0_term(get(st)))
      ELSE Return(f, st)

expr_first(r) == IF r.ex THEN r ELSE expr_loop(r.f, skip_whitespace(r.st))

parse_expr(st) == expr_first(parse_lvl0_term(st))

\* FunctionParser(str).get(), lines 88-94
FunctionParser_get(str) == parse_expr(Stream(str))

(***************************************************************************)
(* Values of closures.  A closure is applied exactly on the Gaussian       *)
(* integers: a value is [re, im, def]; def is FALSE where the exact result *)
(* is not a Gaussian integer (inexact quotient, non-natural exponent,      *)
(* transcendental function, division by zero).                             *)
(***************************************************************************)
Cx(re, im) == [re |-> re, im |-> im, def |-> TRUE]
NoValue == [re |-> 0, im |-> 0, def |-> FALSE]

CxAdd(a, b) == IF a.def /\ b.def THEN Cx(a.re + b.re, a.im + b.im) ELSE NoValue
CxSub(a, b) == IF a.def /\ b.def THEN Cx(a.re - b.re, a.im - b.im) ELSE NoValue
CxMul(a, b) ==
    IF a.def /\ b.def
      THEN Cx(a.re * b.re - a.im * b.im, a.re * b.im + a.im * b.re)
      ELSE NoValue
CxDiv(a, b) ==
    LET d == b.re * b.re + b.im * b.im
        nr == a.re * b.re + a.im * b.im
        ni == a.im * b.re - a.re * b.im
    IN IF a.def /\ b.def /\ d # 0 /\ nr % d = 0 /\ ni % d = 0
         THEN Cx(nr \div d, ni \div d)
         ELSE NoValue
RECURSIVE CxPowNat(_, _)
CxPowNat(a, n) == IF n = 0 THEN Cx(1, 0) ELSE CxMul(a, CxPowNat(a, n - 1))
CxPow(a, b) ==
    IF a.def /\ b.def /\ b.im = 0 /\ b.re >= 0 /\ b.re <= 4
      THEN CxPowNat(a, b.re)
      ELSE NoValue
RECURSIVE Pow10(_)
Pow10(p) == IF p = 0 THEN 1 ELSE 10 * Pow10(p - 1)
NumValue(x) == IF x[2] >= 0 /\ x[2] <= 4 THEN Cx(x[1] * Pow10(x[2]), 0)
                                         ELSE NoValue

\* the value f(z, c) of a closure
RECURSIVE Apply(_, _, _)
Apply(f, z, c) ==
    CASE f.op = "z" -> z
      [] f.op = "c" -> c
      [] f.op = "I" -> Cx(0, 1)
      [] f.op = "num" -> NumValue(f.num)
      [] f.op = "neg" -> CxSub(Cx(0, 0), Apply(f.args[1], z, c))
      [] f.op = "+" -> CxAdd(Apply(f.args[1], z, c), Apply(f.args[2], z, c))
      [] f.op = "-" -> CxSub(Apply(f.args[1], z, c), Apply(f.args[2], z, c))
      [] f.op = "*" -> CxMul(Apply(f.args[1], z, c), Apply(f.args[2], z, c))
      [] f.op = "/" -> CxDiv(Apply(f.args[1], z, c), Apply(f.args[2], z, c))
      [] f.op = "^" -> CxPow(Apply(f.args[1], z, c), Apply(f.args[2], z, c))
      [] f.op = "real" ->
            LET v == Apply(f.args[1], z, c) IN
            IF v.def THEN Cx(v.re, 0) ELSE NoValue
      [] f.op = "imag" ->
            LET v == Apply(f.args[1], z, c) IN
            IF v.def THEN Cx(0, v.im) ELSE NoValue
      [] OTHER -> NoValue

\* std::abs(test) < escape, for an integral escape radius
abs_less(v, escape) ==
    v.def /\ escape > 0 /\ v.re * v.re + v.im * v.im < escape * escape

(***************************************************************************)
(* The grammar of formulas, as a definition of what a formula denotes:     *)
(*   expr := term (('+'|'-') term)*      term := power (('*'|'/') power)*  *)
(*   power := factor ('^' factor)*                                         *)
(*   factor := ('+'|'-')? factor | 'I' | 'z' | '(' expr ')' | number       *)
(*             | name '(' expr ')' | 'c'                                   *)
(* A formula is cut into tokens (maximal runs of letters, numerals, single *)
(* operator and parenthesis characters, blanks between tokens) and a token *)
(* sequence denotes the tree obtained by splitting it at its last          *)
(* operator of the weakest level outside parentheses.                      *)
(***************************************************************************)
FunctionNames == {"abs", "exp", "sin", "cos", "tan", "asin", "acos", "atan",
                  "sqrt", "real", "imag"}
Letters == {"a", "b", "c", "d", "e", "f", "g", "h", "i", "j", "k", "l", "m",
            "n", "o", "p", "q", "r", "s", "t", "u", "v", "w", "x", "y", "z",
            "I"}
OperatorChars == {"+", "-", "*", "/", "^"}
Blanks == {" ", "\t"}

RECURSIVE Text(_)
Text(cs) == IF cs = << >> THEN "" ELSE cs[1] \o Text(Tail(cs))

\* length of the longest prefix of cs made of characters of set
RECURSIVE RunLength(_, _)
RunLength(cs, set) ==
    IF cs # << >> /\ cs[1] \in set THEN 1 + RunLength(Tail(cs), set) ELSE 0

Drop(cs, n) == SubSeq(cs, n + 1, Len(cs))
Take(cs, n) == SubSeq(cs, 1, n)

\* length of the numeral at the head of cs: digits and points, then an
\* exponent marker with an optional sign and digits
NumeralLength(cs) ==
    LET n == RunLength(cs, Digits \cup {"."})
        rest == Drop(cs, n)
    IN IF rest # << >> /\ rest[1] \in {"e", "E"}
         THEN IF Len(rest) >= 2 /\ rest[2] \in {"+", "-"}
                THEN n + 2 + RunLength(Drop(rest, 2), Digits)
                ELSE n + 1 + RunLength(Drop(rest, 1), Digits)
         ELSE n

Token(kind, cs) == [kind |-> kind, text |-> Text(cs), chars |-> cs]

RECURSIVE Tokens(_)
Tokens(cs) ==
    IF cs = << >> THEN << >>
    ELSE IF cs[1] \in Blanks THEN Tokens(Tail(cs))
    ELSE IF cs[1] \in Letters
      THEN LET n == RunLength(cs, Letters) IN
           <<Token("id", Take(cs, n))>> \o Tokens(Drop(cs, n))
    ELSE IF cs[1] \in Digits \cup {"."}
      THEN LET n == NumeralLength(cs) IN
           <<Token("num", Take(cs, n))>> \o Tokens(Drop(cs, n))
    ELSE IF cs[1] \in OperatorChars
      THEN <<Token("op", <<cs[1]>>)>> \o Tokens(Tail(cs))
    ELSE IF cs[1] = "(" THEN <<Token("lp", <<cs[1]>>)>> \o Tokens(Tail(cs))
    ELSE IF cs[1] = ")" THEN <<Token("rp", <<cs[1]>>)>> \o Tokens(Tail(cs))
    ELSE <<Token("bad", <<cs[1]>>)>> \o Tokens(Tail(cs))

\* the value of a numeral: digits [. digits] [e [sign] digits], at least one
\* mantissa digit; <<-1, 0>> when the text is not a numeral
RECURSIVE DigitsValue(_)
DigitsValue(ds) ==
    IF ds = << >> THEN 0
    ELSE DigitVal(ds[Len(ds)]) + 10 * DigitsValue(Take(ds, Len(ds) - 1))

NumeralValue(cs) ==
    LET marks == {i \in 1..Len(cs) : cs[i] \in {"e", "E"}}
        epos == IF marks = {} THEN Len(cs) + 1
                ELSE CHOOSE i \in marks : \A j \in marks : i <= j
        mant == Take(cs, epos - 1)
        expo == Drop(cs, epos)
        points == {i \in 1..Len(mant) : mant[i] = "."}
        mdigits == SelectSeq(mant, LAMBDA ch : ch # ".")
        signed == expo # << >> /\ expo[1] \in {"+", "-"}
        edigits == IF signed THEN Tail(expo) ELSE expo
        esign == IF signed /\ expo[1] = "-" THEN -1 ELSE 1
        fraction == IF points = {} THEN 0
                    ELSE Len(mant) - (CHOOSE i \in points : TRUE)
        wellformed ==
            /\ Cardinality(points) <= 1
            /\ mdigits # << >>
            /\ \A i \in 1..Len(mdigits) : mdigits[i] \in Digits
            /\ Cardinality(marks) <= 1
            /\ (marks # {} => edigits # << >>)
            /\ \A i \in 1..Len(edigits) : edigits[i] \in Digits
    IN IF wellformed
         THEN Norm(DigitsValue(mdigits), esign * DigitsValue(edigits) - fraction)
         ELSE <<-1, 0>>

NoTree == Node("error", << >>)

Depth(toks, i) ==
    Cardinality({j \in 1..(i - 1) : toks[j].kind = "lp"})
      - Cardinality({j \in 1..(i - 1) : toks[j].kind = "rp"})

\* positions of the binary operators of a level outside all parentheses;
\* a '+' or '-' is binary when an operand ends just before it
TopOperators(toks, level) ==
    {i \in 2..Len(toks) :
        /\ toks[i].kind = "op"
        /\ toks[i].text \in level
        /\ Depth(toks, i) = 0
        /\ toks[i - 1].kind \in {"id", "num", "rp"}}

Largest(S) == CHOOSE i \in S : \A j \in S : j <= i

RECURSIVE Denotes(_)
SplitAt(toks, i) ==
    LET l == Denotes(Take(toks, i - 1))
        r == Denotes(Drop(toks, i))
    IN IF l = NoTree \/ r = NoTree THEN NoTree
       ELSE Node(toks[i].text, <<l, r>>)

Denotes(toks) ==
    LET n == Len(toks) IN
    IF n = 0 THEN NoTree
    ELSE IF TopOperators(toks, {"+", "-"}) # {}
      THEN SplitAt(toks, Largest(TopOperators(toks, {"+", "-"})))
    ELSE IF TopOperators(toks, {"*", "/"}) # {}
      THEN SplitAt(toks, Largest(TopOperators(toks, {"*", "/"})))
    ELSE IF TopOperators(toks, {"^"}) # {}
      THEN SplitAt(toks, Largest(TopOperators(toks, {"^"})))
    ELSE IF toks[1].kind = "op" /\ toks[1].text \in {"+", "-"}
      THEN LET f == Denotes(Tail(toks)) IN
           IF f = NoTree THEN NoTree
           ELSE IF toks[1].text = "-" THEN Node("neg", <<f>>) ELSE f
    ELSE IF n = 1
      THEN IF toks[1].kind = "id" /\ toks[1].text \in {"z", "c", "I"}
             THEN Node(toks[1].text, << >>)
           ELSE IF toks[1].kind = "num"
                   /\ NumeralValue(toks[1].chars) # <<-1, 0>>
             THEN constant_fn(NumeralValue(toks[1].chars))
           ELSE NoTree
    ELSE IF toks[1].kind = "lp" /\ toks[n].kind = "rp"
      THEN Denotes(SubSeq(toks, 2, n - 1))
    ELSE IF n >= 3 /\ toks[1].kind = "id" /\ toks[1].text \in FunctionNames
            /\ toks[2].kind = "lp" /\ toks[n].kind = "rp"
      THEN LET f == Denotes(SubSeq(toks, 3, n - 1)) IN
           IF f = NoTree THEN NoTree ELSE Node(toks[1].text, <<f>>)
    ELSE NoTree

\* what a formula denotes under the grammar; NoTree for a malformed one
Meaning(str) == Denotes(Tokens(str))
WellFormed(str) == Meaning(str) # NoTree



(***************************************************************************)
(* fractals.hpp:41-51  Fractal(dom): values.resize(nacross * nup)           *)
(***************************************************************************)
values_size(na, nu) == na * nu

(***************************************************************************)
(* decompose_domain, fractals.hpp:67-91                                    *)
(***************************************************************************)
\* line 77: the number of rows the cursor advances by
band_rows(na) == points_per_thread \div na + 1

\* line 77: dom_start += band
advance_cursor_backwards(ds, na) == ds - band_rows(na)
advance_cursor(ds, na) == ds + band_rows(na)

\* line 78: last_row = dom_start < dom.nup ? dom_start : dom.nup
last_row_unclipped(ds, nu) == ds
last_row_of(ds, nu) == IF ds < nu THEN ds ELSE nu

\* line 88: target.nup = last_row - first_row
target_nup(last, first) == last - first

\* lines 80-86 and main.cpp:43-51 compute coordinates in floating point.
\* A float is modelled exactly, as a whole number n of units, the unit of
\* imaginary parts being 1/(nup - 1) and that of real parts 1/(nacross - 1)
\* of the region: every quotient the engine takes of a finite value is
\* then a whole number of units again, and one that were not would be
\* Rounded.  A quotient by zero (an infinity or a NaN) is NotFinite; sums
\* and products with a value that is not exact are not exact.
Exact(n) == [n |-> n, kind |-> "exact"]
NotFinite == [n |-> 0, kind |-> "not finite"]
Rounded == [n |-> 0, kind |-> "rounded"]
\* the float of the integer k, in units of 1/scale
Float(k, scale) == Exact(k * scale)
FAdd(a, b) == IF a.kind # "exact" THEN a
              ELSE IF b.kind # "exact" THEN b
              ELSE Exact(a.n + b.n)
FSub(a, b) == IF a.kind # "exact" THEN a
              ELSE IF b.kind # "exact" THEN b
              ELSE Exact(a.n - b.n)
\* product with, and quotient by, the float of the unsigned number k
FMul(a, k) == IF a.kind # "exact" THEN a ELSE Exact(a.n * k)
FDiv(a, k) == IF a.kind # "exact" THEN a
              ELSE IF k = 0 THEN NotFinite
              ELSE IF a.n % k # 0 THEN Rounded
              ELSE Exact(a.n \div k)

\* lines 80-82: dy = (upper_right.imag - lower_left.imag) / (nup - 1);
\* ll and ur are the corners of the region, with integer parts
domain_dy(ll, ur, nu) == FDiv(Float(ur.im - ll.im, nu - 1), nu - 1)

\* line 84: target.lower_left = dom.lower_left + cmplx(0.0, dy * first_row)
target_lower_left(ll, dy, first, na, nu) ==
    [re |-> Float(ll.re, na - 1),
     im |-> FAdd(Float(ll.im, nu - 1), FMul(dy, first))]

\* lines 85-86: target.upper_right =
\*     cmplx(dom.upper_right.real(), dy*(last_row - 1) + dom.lower_left.imag())
target_upper_right(ll, ur, dy, last, na, nu) ==
    [re |-> Float(ur.re, na - 1),
     im |-> FAdd(FMul(dy, last - 1), Float(ll.im, nu - 1))]

\* `unsigned` products are taken modulo 2^32.  A 32-bit value is kept as
\* its two 16-bit halves <<high, low>>; one factor is below 2^15 wherever
\* the engine multiplies (a row index or a row count).
Half == 65536
unsigned_mul(a, small) ==
    <<((a \div Half) * small + ((a % Half) * small) \div Half) % Half,
      ((a % Half) * small) % Half>>
unsigned_less(a, b) == a[1] < b[1] \/ (a[1] = b[1] /\ a[2] < b[2])

\* lines 47-50: values.resize(dom.nacross * dom.nup), as a 32-bit value
values_size32(na, nu) == unsigned_mul(na, nu)

\* line 89 with vector_slice.hpp:20-26: the slice starts at
\* first_row * nacross; the constructor throws when that is not inside vals
slice_begin(first, na) == first * na
slice_throws(begin, size) == ~unsigned_less(begin, size)

EmptyDomain == [nacross |-> 0, nup |-> 0, first |-> 0,
                lower_left |-> [re |-> Exact(0), im |-> Exact(0)],
                upper_right |-> [re |-> Exact(0), im |-> Exact(0)]]

\* the regions explored: two heights over the same lower left corner
LowerLefts == {Cx(-2, -1)}
UpperRights == {Cx(1, 1), Cx(1, 2)}

(***************************************************************************)
(* Initial state: the options have been read, nothing has been computed.   *)
(***************************************************************************)
WorkersUnborn ==
    /\ pc = [t \in Threads |-> "unborn"]
    /\ done = [t \in Threads |-> FALSE]
    /\ first_row = [t \in Threads |-> 0]
    /\ this_dom = [t \in Threads |-> EmptyDomain]
    /\ my_slice = [t \in Threads |-> -1]
    /\ row_i = [t \in Threads |-> 0]

ParserOff ==
    /\ formula = << >>
    /\ compiled = Return(Node("none", << >>), Stream(<< >>))
    /\ ppc = "off"

EvaluatorOff ==
    /\ tf = [mode |-> "c", constant |-> Cx(0, 0), escape |-> 0,
             max_iters |-> 0, func |-> Node("none", << >>)]
    /\ point = Cx(0, 0)
    /\ test = Cx(0, 0)
    /\ iters = 0
    /\ ret = 0
    /\ epc = "off"

SplineOff ==
    /\ xs_ = << >>
    /\ ys_ = << >>
    /\ coeffs_ = << >>
    /\ sx = 0
    /\ sret = [kind |-> "none", y |-> 0]
    /\ spc = "off"

\* get_options has not been entered
OptionsOff ==
    /\ istream = << >>
    /\ got_options = [k \in 1..5 |-> FALSE]
    /\ options = [k \in 1..5 |-> << >>]
    /\ seen = << >>
    /\ thrown = "none"
    /\ opc = "off"

EngineAt(na, nu, nt) ==
    /\ lower_left = Cx(-2, -1)
    /\ upper_right = Cx(1, 1)
    /\ nacross = na
    /\ nup = nu
    /\ num_threads = nt
    /\ domain_start = 0
    /\ decomp_mutex = 0
    /\ calls = 0
    /\ phase = "main"
    /\ spawned = 0
    /\ joined = 0
    /\ values = << >>
    /\ issued = << >>
    /\ WorkersUnborn

Init ==
    /\ ParserOff
    /\ EvaluatorOff
    /\ SplineOff
    /\ OptionsOff
    /\ lower_left \in LowerLefts
    /\ upper_right \in UpperRights
    /\ nacross \in ColumnCounts
    /\ nup \in 2..MaxRows
    /\ num_threads \in 1..MaxThreads
    /\ domain_start = 0
    /\ decomp_mutex = 0
    /\ calls = 0
    /\ phase = "main"
    /\ spawned = 0
    /\ joined = 0
    /\ values = << >>
    /\ issued = << >>
    /\ WorkersUnborn

(***************************************************************************)
(* make_fractal, fractals.hpp:132-151                                      *)
(***************************************************************************)
\* lines 137-143: a fresh Fractal and an empty thread vector.  The cursor
\* (fractals.cpp:10) is not touched here.
make_fractal_enter ==
    /\ phase \in {"main", "returned"}
    /\ calls' = calls + 1
    /\ phase' = "spawning"
    /\ spawned' = 0
    /\ joined' = 0
    /\ values' = << >>
    /\ issued' = << >>
    /\ pc' = [t \in Threads |-> "unborn"]
    /\ done' = [t \in Threads |-> FALSE]
    /\ first_row' = [t \in Threads |-> 0]
    /\ this_dom' = [t \in Threads |-> EmptyDomain]
    /\ my_slice' = [t \in Threads |-> -1]
    /\ row_i' = [t \in Threads |-> 0]
    /\ UNCHANGED <<opts, domain_start, decomp_mutex>>
    /\ UNCHANGED <<pvars, evars, svars, ovars>>

\* lines 145-147: threads.push_back(thread(check_points))
spawn_thread ==
    /\ phase = "spawning"
    /\ IF spawned < num_threads
         THEN /\ spawned' = spawned + 1
              /\ pc' = [pc EXCEPT ![spawned + 1] = "lock"]
              /\ phase' = phase
         ELSE /\ phase' = "joining"
              /\ UNCHANGED <<spawned, pc>>
    /\ UNCHANGED <<opts, domain_start, decomp_mutex,
                   calls, joined, values, issued, done, first_row, this_dom,
                   my_slice, row_i>>
    /\ UNCHANGED <<pvars, evars, svars, ovars>>

\* lines 148-150: thr.join() for every thread in order, then return f
thread_joinable_always(p) == TRUE
thread_joinable(p) == p = "exit"

join_thread ==
    /\ phase = "joining"
    /\ IF joined < spawned
         THEN /\ thread_joinable(pc[joined + 1])
              /\ joined' = joined + 1
              /\ phase' = phase
         ELSE /\ phase' = "returned"
              /\ joined' = joined
    /\ UNCHANGED <<opts, domain_start, decomp_mutex,
                   calls, spawned, values, issued, pc, done, first_row,
                   this_dom, my_slice, row_i>>
    /\ UNCHANGED <<pvars, evars, svars, ovars>>

(***************************************************************************)
(* check_points_thread, fractals.hpp:98-114                                *)
(***************************************************************************)
\* fractals.cpp:14-17: std::mutex::lock blocks until the mutex is free
mutex_can_lock_nonexclusive(m, t) == TRUE
mutex_can_lock(m, t) == m = 0

\* line 106
lock_decomposition_mutex(t) ==
    /\ pc[t] = "lock"
    /\ mutex_can_lock(decomp_mutex, t)
    /\ decomp_mutex' = t
    /\ pc' = [pc EXCEPT ![t] = "dd_read"]
    /\ UNCHANGED <<opts, domain_start, calls, phase,
                   spawned, joined, values, issued, done, first_row,
                   this_dom, my_slice, row_i>>
    /\ UNCHANGED <<pvars, evars, svars, ovars>>

\* line 107, decompose_domain lines 72-76: read the cursor
decompose_domain_read(t) ==
    /\ pc[t] = "dd_read"
    /\ IF domain_start >= nup
         THEN /\ done' = [done EXCEPT ![t] = TRUE]
              /\ pc' = [pc EXCEPT ![t] = "unlock"]
              /\ UNCHANGED first_row
         ELSE /\ first_row' = [first_row EXCEPT ![t] = domain_start]
              /\ pc' = [pc EXCEPT ![t] = "dd_advance"]
              /\ UNCHANGED done
    /\ UNCHANGED <<opts, domain_start, decomp_mutex,
                   calls, phase, spawned, joined, values, issued, this_dom,
                   my_slice, row_i>>
    /\ UNCHANGED <<pvars, evars, svars, ovars>>

\* decompose_domain lines 77-90: advance the cursor, fill target and output
decompose_domain_advance(t) ==
    /\ pc[t] = "dd_advance"
    /\ LET ds == advance_cursor(domain_start, nacross)
           last == last_row_of(ds, nup)
           begin == slice_begin(first_row[t], nacross)
           dy == domain_dy(lower_left, upper_right, nup)
           band == [nacross |-> nacross,
                    nup |-> target_nup(last, first_row[t]),
                    first |-> first_row[t],
                    lower_left |->
                        target_lower_left(lower_left, dy, first_row[t],
                                          nacross, nup),
                    upper_right |->
                        target_upper_right(lower_left, upper_right, dy, last,
                                           nacross, nup)]
       IN /\ domain_start' = ds
          /\ this_dom' = [this_dom EXCEPT ![t] = band]
          /\ IF slice_throws(unsigned_mul(nacross, first_row[t]),
                             values_size32(nacross, nup))
               THEN \* std::out_of_range leaves the thread function:
                    \* std::terminate, the mutex is never unlocked
                    /\ pc' = [pc EXCEPT ![t] = "terminated"]
                    /\ UNCHANGED <<my_slice, done, issued>>
               ELSE /\ my_slice' = [my_slice EXCEPT ![t] = begin]
                    /\ done' = [done EXCEPT ![t] = FALSE]
                    /\ issued' = Append(issued, [first |-> band.first,
                                                 nup |-> band.nup, by |-> t])
                    /\ pc' = [pc EXCEPT ![t] = "unlock"]
    /\ UNCHANGED <<opts, decomp_mutex, calls, phase,
                   spawned, joined, values, first_row, row_i>>
    /\ UNCHANGED <<pvars, evars, svars, ovars>>

\* lines 108-112: unlock, then leave the loop or call chk
mutex_after_unlock_kept(m) == m
mutex_after_unlock(m) == 0

unlock_decomposition_mutex(t) ==
    /\ pc[t] = "unlock"
    /\ decomp_mutex' = mutex_after_unlock(decomp_mutex)
    /\ IF done[t]
         THEN /\ pc' = [pc EXCEPT ![t] = "exit"]
              /\ UNCHANGED row_i
         ELSE /\ pc' = [pc EXCEPT ![t] = "chk"]
              /\ row_i' = [row_i EXCEPT ![t] = 0]
    /\ UNCHANGED <<opts, domain_start, calls, phase,
                   spawned, joined, values, issued, done, first_row,
                   this_dom, my_slice>>
    /\ UNCHANGED <<pvars, evars, svars, ovars>>

(***************************************************************************)
(* point_checker, main.cpp:40-55.  One step is one pass of the outer loop: *)
(* the inner loop stores slice[i*nacross + j] for j = 0..nacross-1, which  *)
(* is the index range lo..hi of the vector.                                *)
(***************************************************************************)
row_lo(start, i, na) == start + i * na
row_hi(start, i, na) == start + i * na + (na - 1)

\* main.cpp:43-46
checker_dx(dom) == FDiv(FSub(dom.upper_right.re, dom.lower_left.re),
                        dom.nacross - 1)
checker_dy(dom) == FDiv(FSub(dom.upper_right.im, dom.lower_left.im),
                        dom.nup - 1)

\* main.cpp:50-51: the points of row i are
\* cmplx(lower_left.real + j*dx, lower_left.imag + i*dy), j = 0..nacross-1;
\* a row's points are kept as the real part of the first, dx and the common
\* imaginary part
row_points(dom, i) ==
    [re0 |-> dom.lower_left.re,
     dx |-> checker_dx(dom),
     im |-> FAdd(dom.lower_left.im, FMul(checker_dy(dom), i))]

store_row(vals, lo, hi, pt, c) ==
    IF lo \in DOMAIN vals
      THEN [vals EXCEPT ![lo] = [hi |-> hi, n |-> vals[lo].n + 1, pt |-> pt,
                                 c |-> c]]
      ELSE [k \in DOMAIN vals \cup {lo} |->
              IF k = lo THEN [hi |-> hi, n |-> 1, pt |-> pt, c |-> c]
                        ELSE vals[k]]

point_checker_row(t) ==
    /\ pc[t] = "chk"
    /\ IF row_i[t] < this_dom[t].nup
         THEN /\ values' = store_row(values,
                     row_lo(my_slice[t], row_i[t], this_dom[t].nacross),
                     row_hi(my_slice[t], row_i[t], this_dom[t].nacross),
                     [first |-> this_dom[t].first, nup |-> this_dom[t].nup,
                      i |-> row_i[t]],
                     row_points(this_dom[t], row_i[t]))
              /\ row_i' = [row_i EXCEPT ![t] = row_i[t] + 1]
              /\ UNCHANGED pc
         ELSE /\ pc' = [pc EXCEPT ![t] = "lock"]
              /\ UNCHANGED <<values, row_i>>
    /\ UNCHANGED <<opts, domain_start, decomp_mutex,
                   calls, phase, spawned, joined, issued, done, first_row,
                   this_dom, my_slice>>
    /\ UNCHANGED <<pvars, evars, svars, ovars>>

\* main.cpp:57 is the only call of make_fractal in the program
Next ==
    \/ /\ calls = 0
       /\ make_fractal_enter
    \/ spawn_thread
    \/ join_thread
    \/ \E t \in Threads : lock_decomposition_mutex(t)
    \/ \E t \in Threads : decompose_domain_read(t)
    \/ \E t \in Threads : decompose_domain_advance(t)
    \/ \E t \in Threads : unlock_decomposition_mutex(t)
    \/ \E t \in Threads : point_checker_row(t)

Spec == Init /\ [][Next]_vars

\* make_fractal is a library routine: a caller may call it again after it
\* has returned (fractals.hpp:116-131)
NextCalls ==
    \/ /\ calls < MaxCalls
       /\ make_fractal_enter
    \/ spawn_thread
    \/ join_thread
    \/ \E t \in Threads : lock_decomposition_mutex(t)
    \/ \E t \in Threads : decompose_domain_read(t)
    \/ \E t \in Threads : decompose_domain_advance(t)
    \/ \E t \in Threads : unlock_decomposition_mutex(t)
    \/ \E t \in Threads : point_checker_row(t)

SpecCalls == Init /\ [][NextCalls]_vars

\* The workers are OS threads and main blocks in join: whenever some step
\* of the computation can be taken, one eventually is.
\* No step is guarded by the corners of the region, so one pair of corners
\* stands for all.
InitLive == Init /\ upper_right = Cx(1, 1)
SpecLive == InitLive /\ [][Next]_vars /\ WF_vars(Next)

\* Regions of 2^30 columns: with 2 rows the point count is 2^31, with 4
\* and 5 rows it does not fit in `unsigned` and nacross * nup wraps to 0 and
\* to 2^30.
WideColumns == 1073741824
InitWide ==
    /\ ParserOff
    /\ EvaluatorOff
    /\ SplineOff
    /\ OptionsOff
    /\ lower_left = Cx(0, -1)
    /\ upper_right = Cx(1, 1)
    /\ nacross = WideColumns
    /\ nup \in {2, 4, 5}
    /\ num_threads \in 1..MaxThreads
    /\ domain_start = 0
    /\ decomp_mutex = 0
    /\ calls = 0
    /\ phase = "main"
    /\ spawned = 0
    /\ joined = 0
    /\ values = << >>
    /\ issued = << >>
    /\ WorkersUnborn

SpecWide == InitWide /\ [][Next]_vars

(***************************************************************************)
(* Reading the configuration: main.cpp:29-36 calls get_options             *)
(* (options.hpp:110-162), which reads the region with parse_domain         *)
(* (options.hpp:164-192) and the thread count with parse_integer           *)
(* (options.cpp:224-232).  A token is its type and, for a number, its       *)
(* value.                                                                  *)
(***************************************************************************)
IntegerToken(n) == [type |-> "integer", value |-> n]
FloatingToken == [type |-> "floating", value |-> 0]

\* options.cpp:226-231: a token that is not an integer is refused, an
\* integer is returned as it is
parse_integer_throws(tok) == tok.type # "integer"
parse_integer(tok) == tok.value

\* the tokens tried for the column count, the row count and num_threads
ColumnTokens == {IntegerToken(n) : n \in {1, 2, 100001}} \cup {FloatingToken}
RowTokens == {IntegerToken(n) : n \in 0..2} \cup {FloatingToken}
ThreadTokens == {IntegerToken(n) : n \in 0..MaxThreads} \cup {FloatingToken}

\* main.cpp:29-36: the options are taken as parsed, an exception ends the
\* program
main_get_options ==
    /\ phase = "config"
    /\ \E na \in ColumnTokens, nu \in RowTokens, nt \in ThreadTokens :
          IF parse_integer_throws(na) \/ parse_integer_throws(nu)
                \/ parse_integer_throws(nt)
            THEN /\ phase' = "rejected"
                 /\ UNCHANGED <<nacross, nup, num_threads>>
            ELSE /\ phase' = "main"
                 /\ nacross' = parse_integer(na)
                 /\ nup' = parse_integer(nu)
                 /\ num_threads' = parse_integer(nt)
    /\ UNCHANGED <<lower_left, upper_right, domain_start, decomp_mutex,
                   calls, spawned, joined, values, issued, pc, done,
                   first_row, this_dom, my_slice, row_i>>
    /\ UNCHANGED <<pvars, evars, svars, ovars>>

InitConfig ==
    /\ ParserOff
    /\ EvaluatorOff
    /\ SplineOff
    /\ OptionsOff
    /\ lower_left \in LowerLefts
    /\ upper_right \in UpperRights
    /\ nacross = 0
    /\ nup = 0
    /\ num_threads = 0
    /\ domain_start = 0
    /\ decomp_mutex = 0
    /\ calls = 0
    /\ phase = "config"
    /\ spawned = 0
    /\ joined = 0
    /\ values = << >>
    /\ issued = << >>
    /\ WorkersUnborn

NextConfig == main_get_options \/ Next

SpecConfig == InitConfig /\ [][NextConfig]_vars

(***************************************************************************)
(* The option file reader, options.hpp:110-162 and options.cpp.            *)
(*                                                                         *)
(* The stream is what is left of the file, lexeme by lexeme: a word, a     *)
(* punctuation character, a quoted string (closed or running into the end  *)
(* of the file) or a run of the characters get_numeric_token reads.  The   *)
(* contents of a lexeme is a sequence of one-character strings, of a word  *)
(* or symbol the sequence holding it whole.  White space and comments are  *)
(* skipped by skip_whitespace and are not kept.                            *)
(***************************************************************************)
Word(w) == [lex |-> "word", contents |-> <<w>>]
Symbol(c) == [lex |-> "symbol", contents |-> <<c>>]
Quoted(cs) == [lex |-> "string", contents |-> cs]
OpenQuoted(cs) == [lex |-> "open string", contents |-> cs]
Number(cs) == [lex |-> "number", contents |-> cs]

\* options.hpp:55-59, with the number an integer token is extracted to
LexToken(type, cs, n) == [type |-> type, contents |-> cs, value |-> n]
Lexed(tok, rest) == [tok |-> tok, rest |-> rest, thrown |-> "none"]
LexThrown(rest) ==
    [tok |-> LexToken("eof", << >>, 0), rest |-> rest,
     thrown |-> "char const*"]

\* options.cpp:49-69, the loop over the characters after the first
RECURSIVE numeric_scan(_, _, _, _, _)
numeric_scan(cs, i, got_decimal, got_scientific_specifier, type) ==
    IF i > Len(cs) THEN [type |-> type, thrown |-> FALSE]
    ELSE IF cs[i] = "."
      THEN IF got_decimal THEN [type |-> type, thrown |-> TRUE]
           ELSE numeric_scan(cs, i + 1, TRUE, got_scientific_specifier,
                             "floating")
    ELSE IF cs[i] \in {"e", "E"}
      THEN IF got_scientific_specifier THEN [type |-> type, thrown |-> TRUE]
           ELSE numeric_scan(cs, i + 1, got_decimal, TRUE, "floating")
    ELSE IF cs[i] \in {"-", "+"}
      THEN IF cs[i - 1] \notin {"e", "E"}
             THEN [type |-> type, thrown |-> TRUE]
             ELSE numeric_scan(cs, i + 1, got_decimal,
                               got_scientific_specifier, type)
    ELSE numeric_scan(cs, i + 1, got_decimal, got_scientific_specifier, type)

\* options.cpp:35-72
get_numeric_token(cs) ==
    numeric_scan(cs, 2, cs[1] = ".", FALSE,
                 IF cs[1] \in {"-", "."} THEN "floating" ELSE "integer")

\* std::istringstream(contents) >> n of an integer token: digits after an
\* optional '+'
extract_unsigned(cs) ==
    IF cs # << >> /\ cs[1] = "+" THEN DigitsValue(Tail(cs))
    ELSE DigitsValue(cs)

numeric_token(cs, r, rest) ==
    IF r.thrown THEN LexThrown(rest)
    ELSE Lexed(LexToken(r.type, cs,
                        IF r.type = "integer" THEN extract_unsigned(cs)
                        ELSE 0), rest)

\* options.cpp:173-190; get_string (lines 85-100) throws at the end of the
\* file
get_next_token(s) ==
    IF s = << >> THEN Lexed(LexToken("eof", << >>, 0), << >>)
    ELSE CASE Head(s).lex = "number" ->
                numeric_token(Head(s).contents,
                              get_numeric_token(Head(s).contents), Tail(s))
           [] Head(s).lex = "word" ->
                Lexed(LexToken("keyword", Head(s).contents, 0), Tail(s))
           [] Head(s).lex = "string" ->
                Lexed(LexToken("string", Head(s).contents, 0), Tail(s))
           [] Head(s).lex = "open string" -> LexThrown(<< >>)
           [] Head(s).lex = "symbol" ->
                Lexed(LexToken("symbol", Head(s).contents, 0), Tail(s))

(***************************************************************************)
(* The value parsers read a fixed run of tokens, each with its own test    *)
(* and its own throw statement.  An item is one such read: what it accepts *)
(* and the type of the exception its throw statement throws.               *)
(***************************************************************************)
ParsingException == "ParsingException"
CharPointer == "char const*"
ParseException == "fn_parser::ParseException"

Item(expect, c, exc) == [expect |-> expect, contents |-> <<c>>, exc |-> exc]

\* options.cpp:224-232, parse_integer
IntegerItem == Item("integer", "", CharPointer)
\* options.cpp:216-222, parse_string
StringItem == Item("string", "", CharPointer)

\* options.hpp:203-238, parse_constant(istream, parser_internal)
ConstantItems ==
    <<Item("symbol", "{", ParsingException),
      Item("numeric", "", ParsingException),
      Item("symbol", ",", ParsingException),
      Item("numeric", "", ParsingException),
      Item("symbol", "}", ParsingException)>>

\* options.hpp:164-192, parse_domain
DomainItems ==
    <<Item("symbol", "{", ParsingException)>> \o ConstantItems
    \o <<Item("symbol", ",", ParsingException)>> \o ConstantItems
    \o <<Item("symbol", ",", ParsingException), IntegerItem,
         Item("symbol", ",", ParsingException), IntegerItem,
         Item("symbol", "}", ParsingException)>>

\* options.hpp:293-368, parse_testfun
TestfunItems ==
    <<Item("symbol", "{", ParsingException),
      Item("formula", "", ParsingException),
      Item("symbol", ",", ParsingException),
      Item("keyword", "max_iterations", ParsingException),
      Item("symbol", ":", ParsingException),
      IntegerItem,
      Item("symbol", ",", ParsingException),
      Item("keyword", "escape_tol", ParsingException),
      Item("symbol", ":", ParsingException),
      Item("istream >> esc", "", ParsingException),
      Item("symbol", ",", ParsingException),
      Item("keyword", "constant", ParsingException),
      Item("symbol", ":", ParsingException)>>
    \o ConstantItems
    \o <<Item("symbol", ",", ParsingException),
         Item("keyword", "point", ParsingException),
         Item("symbol", ":", ParsingException),
         Item("c or z", "", ParsingException),
         Item("symbol", "}", ParsingException)>>

\* options.cpp:102-144, parse_color
ColorItems ==
    <<Item("symbol", "{", CharPointer), Item("color", "", CharPointer),
      Item("symbol", ",", CharPointer), Item("color", "", CharPointer),
      Item("symbol", ",", CharPointer), Item("color", "", CharPointer),
      Item("symbol", "}", CharPointer)>>

\* options.cpp:146-169, parse_color_pair
ColorPairItems ==
    <<Item("symbol", "{", CharPointer), IntegerItem,
      Item("symbol", ",", CharPointer)>>
    \o ColorItems \o <<Item("symbol", "}", CharPointer)>>

\* the test an item makes of the token type and contents
accepts(item, tok) ==
    CASE item.expect = "symbol" ->
            tok.type = "symbol" /\ tok.contents = item.contents
      [] item.expect = "keyword" ->
            tok.type = "keyword" /\ tok.contents = item.contents
      [] item.expect = "c or z" ->
            tok.type = "keyword" /\ tok.contents \in {<<"c">>, <<"z">>}
      [] item.expect = "integer" -> ~parse_integer_throws(tok)
      [] item.expect = "color" -> tok.type = "integer"
      [] item.expect = "numeric" -> tok.type \in {"floating", "integer"}
      [] item.expect = "string" -> tok.type = "string"
      [] item.expect = "formula" -> tok.type = "string"

\* what is thrown after the token was accepted: options.cpp:113, 124, 135
\* (a colour value above 255; the token has no sign) and options.hpp:304
\* (the formula compiler)
thrown_after(item, tok) ==
    IF item.expect = "color" /\ tok.value > 255 THEN CharPointer
    ELSE IF item.expect = "formula" /\ FunctionParser_get(tok.contents).ex
      THEN ParseException
    ELSE "none"

Parsed(s, vals) == [rest |-> s, thrown |-> "none", vals |-> vals]
ParseThrown(s, exc) == [rest |-> s, thrown |-> exc, vals |-> << >>]

\* options.hpp:329, istream >> esc: the characters of a number are taken
\* from the stream without get_next_token; when there is no number the
\* stream fails and every later read finds the end of the file.  Only
\* numbers written with digits alone are extracted here.
extract_esc(s) ==
    IF s # << >> /\ Head(s).lex = "number"
         /\ \A i \in 1..Len(Head(s).contents) : Head(s).contents[i] \in Digits
      THEN Tail(s)
      ELSE << >>

RECURSIVE match(_, _, _)
RECURSIVE match_token(_, _, _, _)
match(s, items, vals) ==
    IF items = << >> THEN Parsed(s, vals)
    ELSE IF Head(items).expect = "istream >> esc"
      THEN match(extract_esc(s), Tail(items), vals)
    ELSE match_token(get_next_token(s), Head(items), Tail(items), vals)

match_token(t, item, items, vals) ==
    IF t.thrown # "none" THEN ParseThrown(t.rest, t.thrown)
    ELSE IF ~accepts(item, t.tok) THEN ParseThrown(t.rest, item.exc)
    ELSE IF thrown_after(item, t.tok) # "none"
      THEN ParseThrown(t.rest, thrown_after(item, t.tok))
    ELSE match(t.rest, items,
               IF item.expect = "symbol" THEN vals ELSE Append(vals, t.tok))

\* options.cpp:192-214, parse_colorlist
RECURSIVE colorlist_loop(_, _)
RECURSIVE colorlist_pair(_)
RECURSIVE colorlist_separator(_, _)
colorlist_separator(t, vals) ==
    IF t.thrown # "none" THEN ParseThrown(t.rest, t.thrown)
    ELSE IF t.tok.type # "symbol" THEN ParseThrown(t.rest, ParsingException)
    ELSE IF t.tok.contents = <<"}">> THEN Parsed(t.rest, vals)
    ELSE IF t.tok.contents # <<",">>
      THEN ParseThrown(t.rest, ParsingException)
    ELSE colorlist_loop(t.rest, vals)

colorlist_pair(r) ==
    IF r.thrown # "none" THEN r
    ELSE colorlist_separator(get_next_token(r.rest), r.vals)

colorlist_loop(s, vals) == colorlist_pair(match(s, ColorPairItems, vals))

colorlist_open(r) ==
    IF r.thrown # "none" THEN r ELSE colorlist_loop(r.rest, << >>)

parse_colorlist(s) ==
    colorlist_open(match(s, <<Item("symbol", "{", ParsingException)>>,
                         << >>))

\* options.hpp:114, the order of got_options
OptionKeywords ==
    <<"colors", "domain", "num_threads", "output", "function">>
OptionIndex(cs) ==
    IF \E k \in 1..5 : cs = <<OptionKeywords[k]>>
      THEN CHOOSE k \in 1..5 : cs = <<OptionKeywords[k]>>
      ELSE 0

\* options.hpp:129, 134, 139, 144, 149
parse_option(k, s) ==
    CASE k = 1 -> parse_colorlist(s)
      [] k = 2 -> match(s, DomainItems, << >>)
      [] k = 3 -> match(s, <<IntegerItem>>, << >>)
      [] k = 4 -> match(s, <<StringItem>>, << >>)
      [] k = 5 -> match(s, TestfunItems, << >>)

get_options_throw(exc, rest, keys) ==
    /\ thrown' = exc
    /\ opc' = "thrown"
    /\ istream' = rest
    /\ seen' = keys
    /\ UNCHANGED <<got_options, options>>

\* lines 129-130 and the like: the value is stored and the option marked
get_options_store(k, r) ==
    IF r.thrown # "none"
      THEN get_options_throw(r.thrown, r.rest, Append(seen, k))
      ELSE /\ options' = [options EXCEPT ![k] = r.vals]
           /\ got_options' = [got_options EXCEPT ![k] = TRUE]
           /\ istream' = r.rest
           /\ seen' = Append(seen, k)
           /\ UNCHANGED <<thrown, opc>>

\* lines 126-153
get_options_already_got_never(k) == FALSE
get_options_already_got(k) == got_options[k]
get_options_dispatch(k, s) ==
    IF k = 0 THEN get_options_throw(ParsingException, s, Append(seen, 0))
    ELSE IF get_options_already_got(k)
      THEN get_options_throw(ParsingException, s, Append(seen, k))
    ELSE get_options_store(k, parse_option(k, s))

\* lines 122-124
get_options_colon(key, t) ==
    IF t.thrown # "none" THEN get_options_throw(t.thrown, t.rest, seen)
    ELSE IF t.tok.type # "symbol" \/ t.tok.contents # <<":">>
      THEN get_options_throw(ParsingException, t.rest, seen)
    ELSE get_options_dispatch(OptionIndex(key.contents), t.rest)

\* lines 116-120 and 154
get_options_keyword(t) ==
    IF t.thrown # "none" THEN get_options_throw(t.thrown, t.rest, seen)
    ELSE IF t.tok.type # "keyword"
      THEN get_options_throw(ParsingException, t.rest, seen)
    ELSE get_options_colon(t.tok, get_next_token(t.rest))

\* one pass of the loop of lines 117-155, the stream not at its end
get_options_option ==
    /\ opc = "loop"
    /\ istream # << >>
    /\ get_options_keyword(get_next_token(istream))
    /\ UNCHANGED <<dvars, pvars, evars, svars>>

\* lines 157-161, the stream at its end
get_options_eof ==
    /\ opc = "loop"
    /\ istream = << >>
    /\ IF \A k \in 1..5 : got_options[k]
         THEN /\ opc' = "returned"
              /\ UNCHANGED thrown
         ELSE /\ opc' = "thrown"
              /\ thrown' = ParsingException
    /\ UNCHANGED <<istream, got_options, options, seen>>
    /\ UNCHANGED <<dvars, pvars, evars, svars>>

\* main.cpp:32-36: a ParsingException is caught and reported, the program
\* exits with status 1; an exception of any other type is not caught and
\* ends the program through std::terminate
main_catch ==
    /\ opc = "thrown"
    /\ opc' = IF thrown = ParsingException THEN "exit" ELSE "terminate"
    /\ UNCHANGED <<istream, got_options, options, seen, thrown>>
    /\ UNCHANGED <<dvars, pvars, evars, svars>>

(***************************************************************************)
(* The option files read: a file is a run of entries, and what follows the *)
(* part read so far is one more entry or the end of the file.              *)
(***************************************************************************)
Entry(keyword, value) == <<Word(keyword), Symbol(":")>> \o value

ConstantLexemes(x, y) ==
    <<Symbol("{"), Number(x), Symbol(","), Number(y), Symbol("}")>>
ColorLexemes(r, g, b) ==
    <<Symbol("{"), Number(r), Symbol(","), Number(g), Symbol(","),
      Number(b), Symbol("}")>>
ColorPairLexemes(n, color) ==
    <<Symbol("{"), Number(n), Symbol(",")>> \o color \o <<Symbol("}")>>
DomainLexemes(nacross_cs, nup_cs) ==
    <<Symbol("{")>> \o ConstantLexemes(<<"-", "2">>, <<"-", "1">>)
    \o <<Symbol(",")>> \o ConstantLexemes(<<"1">>, <<"1", ".", "5">>)
    \o <<Symbol(","), Number(nacross_cs), Symbol(","), Number(nup_cs),
         Symbol("}")>>
TestfunLexemes(str, esc) ==
    <<Symbol("{"), Quoted(str), Symbol(","),
      Word("max_iterations"), Symbol(":"), Number(<<"3">>), Symbol(","),
      Word("escape_tol"), Symbol(":"), esc, Symbol(","),
      Word("constant"), Symbol(":")>>
    \o ConstantLexemes(<<"0">>, <<"0">>)
    \o <<Symbol(","), Word("point"), Symbol(":"), Word("c"), Symbol("}")>>

Black == ColorLexemes(<<"0">>, <<"0">>, <<"0">>)
White == ColorLexemes(<<"2", "5", "5">>, <<"2", "5", "5">>, <<"2", "5", "5">>)

\* entries get_options accepts; two thread counts and two file names
WellFormedEntries ==
    {Entry("colors", <<Symbol("{")>> \o ColorPairLexemes(<<"0">>, Black)
                     \o <<Symbol(",")>> \o ColorPairLexemes(<<"9">>, White)
                     \o <<Symbol("}")>>),
     Entry("domain", DomainLexemes(<<"2">>, <<"3">>)),
     Entry("num_threads", <<Number(<<"1">>)>>),
     Entry("num_threads", <<Number(<<"+", "2">>)>>),
     Entry("output", <<Quoted(<<"a">>)>>),
     Entry("output", <<Quoted(<<"b">>)>>),
     Entry("function", TestfunLexemes(<<"z", "*", "z", "+", "c">>,
                                      Number(<<"2">>)))}

\* entries with one thing wrong
MalformedEntries ==
    {\* a floating token where an integer is read
     Entry("num_threads", <<Number(<<"1", ".", "5">>)>>),
     Entry("domain", DomainLexemes(<<"2", "e", "2">>, <<"3">>)),
     \* a number get_numeric_token refuses
     Entry("num_threads", <<Number(<<"1", ".", "5", ".">>)>>),
     Entry("num_threads", <<Number(<<"1", "-", "2">>)>>),
     \* no string where the file name is read, and a string never closed
     Entry("output", <<Number(<<"1">>)>>),
     Entry("output", <<OpenQuoted(<<"a">>)>>),
     \* a colour value out of range, a colour of two values, a pair
     \* without its comma
     Entry("colors", <<Symbol("{")>>
                     \o ColorPairLexemes(<<"0">>,
                            ColorLexemes(<<"0">>, <<"0">>, <<"2", "5", "6">>))
                     \o <<Symbol("}")>>),
     Entry("colors", <<Symbol("{")>>
                     \o ColorPairLexemes(<<"0">>,
                            <<Symbol("{"), Number(<<"0">>), Symbol(","),
                              Number(<<"0">>), Symbol("}")>>)
                     \o <<Symbol("}")>>),
     Entry("colors", <<Symbol("{"), Symbol("{"), Number(<<"0">>)>> \o Black
                     \o <<Symbol("}"), Symbol("}")>>),
     \* a colour list without its braces, and one never closed
     Entry("colors", ColorPairLexemes(<<"0">>, Black)),
     Entry("colors", <<Symbol("{")>> \o ColorPairLexemes(<<"0">>, Black)),
     \* a region without its opening brace
     Entry("domain", ConstantLexemes(<<"0">>, <<"0">>)),
     \* a formula the compiler refuses, a definition that is no string, a
     \* tolerance that is no number
     Entry("function", TestfunLexemes(<<"z", "+">>, Number(<<"2">>))),
     Entry("function", <<Symbol("{"), Word("z")>>),
     Entry("function", TestfunLexemes(<<"z">>, Word("two"))),
     \* a keyword that names no option, a keyword without its colon, a
     \* keyword before a number that does not lex, a value without keyword,
     \* a second value
     Entry("threads", <<Number(<<"1">>)>>),
     <<Word("output"), Quoted(<<"a">>)>>,
     <<Word("output"), Number(<<"1", ".", ".">>)>>,
     <<Number(<<"1">>)>>,
     <<Number(<<"1", ".", ".">>)>>,
     Entry("num_threads", <<Number(<<"1">>), Number(<<"2">>)>>)}

OptionEntries == WellFormedEntries \cup MalformedEntries

\* main.cpp:25: the file behind the stream holds one more entry
config_more ==
    /\ opc = "loop"
    /\ istream = << >>
    /\ istream' \in OptionEntries
    /\ UNCHANGED <<got_options, options, seen, thrown, opc>>
    /\ UNCHANGED <<dvars, pvars, evars, svars>>

NextOptions ==
    config_more \/ get_options_option \/ get_options_eof \/ main_catch

InitOptions ==
    /\ EngineAt(2, 2, 1)
    /\ ParserOff
    /\ EvaluatorOff
    /\ SplineOff
    /\ istream = << >>
    /\ got_options = [k \in 1..5 |-> FALSE]
    /\ options = [k \in 1..5 |-> << >>]
    /\ seen = << >>
    /\ thrown = "none"
    /\ opc = "loop"

SpecOptions == InitOptions /\ [][NextOptions]_vars

(***************************************************************************)
(* Compiling a formula: parse_testfun, options.hpp:304                     *)
(*   auto f = fn_parser::FunctionParser(curr_token.contents).get<cmplx>(); *)
(***************************************************************************)
parse_testfun_compile ==
    /\ ppc = "ready"
    /\ compiled' = FunctionParser_get(formula)
    /\ ppc' = "done"
    /\ UNCHANGED <<formula, dvars, evars, svars, ovars>>

NextParser == parse_testfun_compile

\* the strings of at most n characters of an alphabet
Strings(chars, n) == UNION {[1..k -> chars] : k \in 0..n}

InitFormula(chars, n) ==
    /\ EngineAt(2, 2, 1)
    /\ EvaluatorOff
    /\ SplineOff
    /\ OptionsOff
    /\ formula \in Strings(chars, n)
    /\ compiled = Return(Node("none", << >>), Stream(<< >>))
    /\ ppc = "ready"

\* formulas of variables, a numeral, the five operators and blanks
ArithChars == {"z", "c", "2", "+", "-", "*", "/", "^", " "}
InitArith == InitFormula(ArithChars, MaxArithLen)
SpecArith == InitArith /\ [][NextParser]_vars

\* formulas with parentheses
GroupChars == {"z", "c", "(", ")", "+", "*", " "}
InitGroup == InitFormula(GroupChars, MaxFormulaLen)
SpecGroup == InitGroup /\ [][NextParser]_vars

\* formulas with identifiers
NameChars == {"e", "x", "p", "(", ")", "2"}
InitNames == InitFormula(NameChars, MaxNameLen)
SpecNames == InitNames /\ [][NextParser]_vars

\* formulas of numeric literals
NumberChars == {"1", "2", ".", "e", "-"}
InitNumbers == InitFormula(NumberChars, MaxFormulaLen)
SpecNumbers == InitNumbers /\ [][NextParser]_vars

(***************************************************************************)
(* ztestfun::operator() and ctestfun::operator(), options.hpp:256-265 and  *)
(* 281-290                                                                 *)
(***************************************************************************)
\* lines 258-259 / 283-284
testfun_enter ==
    /\ epc = "call"
    /\ iters' = 0
    /\ test' = IF tf.mode = "z" THEN point ELSE tf.constant
    /\ epc' = "loop"
    /\ UNCHANGED <<tf, point, ret, dvars, pvars, svars, ovars>>

\* the loop condition, lines 260 / 285
testfun_continue == abs_less(test, tf.escape) /\ iters < tf.max_iters

\* lines 260-263 / 285-288: one pass of the loop body
testfun_iterate ==
    /\ epc = "loop"
    /\ testfun_continue
    /\ test' = IF tf.mode = "z" THEN Apply(tf.func, test, tf.constant)
                                ELSE Apply(tf.func, test, point)
    /\ iters' = iters + 1
    /\ UNCHANGED <<tf, point, ret, epc, dvars, pvars, svars, ovars>>

\* lines 264 / 289: return iters == max_iters ? 0 : iters
testfun_result_unmapped(n, max) == n
testfun_result(n, max) == IF n = max THEN 0 ELSE n

testfun_return ==
    /\ epc = "loop"
    /\ ~testfun_continue
    /\ ret' = testfun_result(iters, tf.max_iters)
    /\ epc' = "returned"
    /\ UNCHANGED <<tf, point, test, iters, dvars, pvars, svars, ovars>>

NextEval == testfun_enter \/ testfun_iterate \/ testfun_return

Points == {Cx(a, b) : a \in -MaxCoord..MaxCoord, b \in -MaxCoord..MaxCoord}

\* the iteration formulas "z^2+c", "z*z+c", "z+c" and "z"
EvalFormulas == {<<"z", "^", "2", "+", "c">>, <<"z", "*", "z", "+", "c">>,
                 <<"z", "+", "c">>, <<"z">>}

InitEval ==
    /\ EngineAt(2, 2, 1)
    /\ ParserOff
    /\ SplineOff
    /\ OptionsOff
    /\ tf \in [mode : {"c", "z"}, constant : Points, escape : 1..MaxEscape,
               max_iters : 0..MaxIters,
               func : {FunctionParser_get(s).f : s \in EvalFormulas}]
    /\ point \in Points
    /\ test = Cx(0, 0)
    /\ iters = 0
    /\ ret = 0
    /\ epc = "call"

SpecEval == InitEval /\ [][NextEval]_vars

(***************************************************************************)
(* Spline, spline.hpp:76-139, as ColorScale uses it (color_scale.hpp:33-66):*)
(* add_point for every colour pair, calculate once, then operator().       *)
(* Knots and values are the doubles of small unsigned numbers.             *)
(***************************************************************************)
\* lines 87-102: iterators are offsets from xs_.begin()
RECURSIVE get_element_position(_, _, _, _)
get_element_position(x, xs, start, end) ==
    IF end = start THEN start
    ELSE IF end - start = 1 THEN (IF xs[start + 1] > x THEN start ELSE end)
    ELSE IF xs[start + (end - start) \div 2 + 1] > x
      THEN get_element_position(x, xs, start, start + (end - start) \div 2)
      ELSE get_element_position(x, xs, start + (end - start) \div 2, end)

\* std::vector::insert before offset
vector_insert_at_end(v, offset, e) == Append(v, e)
vector_insert(v, offset, e) ==
    SubSeq(v, 1, offset) \o <<e>> \o SubSeq(v, offset + 1, Len(v))

\* lines 107-113
add_point ==
    /\ spc = "build"
    /\ Len(xs_) < MaxKnots
    /\ \E px \in 0..MaxKnotX, py \in {0, 255} :
          LET offset == get_element_position(px, xs_, 0, Len(xs_))
          IN /\ xs_' = vector_insert(xs_, offset, px)
             /\ ys_' = vector_insert(ys_, offset, py)
    /\ UNCHANGED <<coeffs_, sx, sret, spc, dvars, pvars, evars, ovars>>

\* lines 13-72: the cubic of interval k is determined by a linear system
\* whose rows fix its value at both ends of the interval (lines 24-28 and
\* 62-66 for the outer knots, 35-39 and 53-57 for the interior ones); with
\* pairwise distinct knots the system is regular and the solution meets
\* every row.  A cubic is kept as the two value constraints it solves.
find_spline_coeffs(xs, ys) ==
    [k \in 1..(Len(xs) - 1) |->
        [xl |-> xs[k], yl |-> ys[k], xr |-> xs[k + 1], yr |-> ys[k + 1],
         regular |-> \A i, j \in 1..Len(xs) : i # j => xs[i] # xs[j]]]

\* lines 120-129; with fewer than two knots find_spline_coeffs indexes
\* outside its matrices, which is not modelled
calculate ==
    /\ spc = "build"
    /\ Len(xs_) >= 2
    /\ coeffs_' = find_spline_coeffs(xs_, ys_)
    /\ spc' = "calculated"
    /\ UNCHANGED <<xs_, ys_, sx, sret, dvars, pvars, evars, ovars>>

\* lines 136-137: a*x^3 + b*x^2 + c*x + d of one interval
cubic_value(co, x) ==
    IF co.regular /\ x = co.xl THEN [kind |-> "value", y |-> co.yl]
    ELSE IF co.regular /\ x = co.xr THEN [kind |-> "value", y |-> co.yr]
    ELSE [kind |-> "interpolated", y |-> 0]

\* line 134: assert(!(it == xs_.begin() || it == xs_.end()))
assert_interior(it, xs) == ~(it = 0 \/ it = Len(xs))

\* lines 131-138.  When the assertion does not hold the program aborts; in
\* a build with NDEBUG line 135 reads outside coeffs_ and any value may
\* come back.
spline_call ==
    /\ spc \in {"calculated", "evaluated"}
    /\ \E x \in 0..MaxKnotX :
          LET it == get_element_position(x, xs_, 0, Len(xs_))
          IN /\ sx' = x
             /\ IF assert_interior(it, xs_)
                  THEN /\ sret' = cubic_value(coeffs_[it], x)
                       /\ spc' = "evaluated"
                  ELSE \/ /\ sret' = [kind |-> "none", y |-> 0]
                          /\ spc' = "aborted"
                       \/ /\ sret' \in {[kind |-> "garbage", y |-> g] :
                                            g \in {0, 255}}
                          /\ spc' = "evaluated"
    /\ UNCHANGED <<xs_, ys_, coeffs_, dvars, pvars, evars, ovars>>

NextSpline == add_point \/ calculate \/ spline_call

InitSpline ==
    /\ EngineAt(2, 2, 1)
    /\ ParserOff
    /\ EvaluatorOff
    /\ xs_ = << >>
    /\ ys_ = << >>
    /\ coeffs_ = << >>
    /\ sx = 0
    /\ sret = [kind |-> "none", y |-> 0]
    /\ spc = "build"
    /\ OptionsOff

SpecSpline == InitSpline /\ [][NextSpline]_vars

(***************************************************************************)
(* Properties of the domain decomposition                                  *)
(***************************************************************************)
ValidRegion == nup >= 2 /\ nacross >= 2 /\ num_threads >= 1

\* the index ranges written so far do not overlap and none was written twice
NoCellWrittenTwice ==
    /\ \A a \in DOMAIN values : values[a].n = 1
    /\ \A a, b \in DOMAIN values :
          a # b => (values[a].hi < b \/ values[b].hi < a)

\* every write went to an index of f.values
NoWriteOutsideGrid ==
    \A a \in DOMAIN values :
        0 <= a /\ a <= values[a].hi /\ values[a].hi < values_size(nacross, nup)

\* cells r*nacross .. r*nacross + nacross-1 of every row r have been written
EveryRowWritten ==
    \A r \in 0..(nup - 1) :
        /\ r * nacross \in DOMAIN values
        /\ values[r * nacross].hi = r * nacross + (nacross - 1)

BandRows(b) == b.first..(b.first + b.nup - 1)

BandsDisjoint ==
    \A m, n \in 1..Len(issued) :
        m # n => BandRows(issued[m]) \cap BandRows(issued[n]) = {}

BandsInGrid ==
    \A m \in 1..Len(issued) :
        issued[m].nup >= 1 /\ BandRows(issued[m]) \subseteq 0..(nup - 1)

BandsCoverRows ==
    UNION {BandRows(issued[m]) : m \in 1..Len(issued)} = 0..(nup - 1)

\* C1: in one make_fractal computation with rows >= 2, columns >= 2 and
\* thread_count >= 1, under every interleaving of the workers, the bands
\* issued are pairwise disjoint and inside the grid, each is claimed by one
\* worker, no cell is written twice or outside the grid, and when
\* make_fractal returns the bands cover rows 0..rows-1 and every cell has
\* been written.
C1_EveryCellWrittenOnce ==
    ValidRegion =>
        /\ NoCellWrittenTwice
        /\ NoWriteOutsideGrid
        /\ BandsDisjoint
        /\ BandsInGrid
        /\ (phase = "returned" => BandsCoverRows /\ EveryRowWritten)

\* a computation that took at least three bands, claimed by two workers
C1_Witness ==
    /\ phase = "returned"
    /\ ValidRegion
    /\ Len(issued) >= 3
    /\ \E m, n \in 1..Len(issued) : issued[m].by # issued[n].by

\* The k-th band a region is cut into, from the region alone
NominalBand(na) == 100000 \div na + 1
ExpectedBandCount(na, nu) == (nu + NominalBand(na) - 1) \div NominalBand(na)
ExpectedBand(na, nu, k) ==
    [first |-> (k - 1) * NominalBand(na),
     nup |-> IF k * NominalBand(na) <= nu THEN NominalBand(na)
                                          ELSE nu - (k - 1) * NominalBand(na)]

\* The band a row belongs to and its position in it, from the region alone
ExpectedPoint(na, nu, r) ==
    LET k == r \div NominalBand(na) + 1
        b == ExpectedBand(na, nu, k)
    IN [first |-> b.first, nup |-> b.nup, i |-> r - b.first]

\* C2: the sequence of bands issued by the cursor and the band coordinates
\* every row is evaluated with are functions of the region alone: they are
\* the same for every thread count, every interleaving and whichever worker
\* claims a band, so the final grid is the same.
C2_Deterministic ==
    ValidRegion =>
        /\ Len(issued) <= ExpectedBandCount(nacross, nup)
        /\ \A k \in 1..Len(issued) :
              /\ issued[k].first = ExpectedBand(nacross, nup, k).first
              /\ issued[k].nup = ExpectedBand(nacross, nup, k).nup
        /\ \A a \in DOMAIN values :
              /\ a % nacross = 0
              /\ values[a].pt = ExpectedPoint(nacross, nup, a \div nacross)
        /\ (phase = "returned" =>
              /\ Len(issued) = ExpectedBandCount(nacross, nup)
              /\ DOMAIN values = {r * nacross : r \in 0..(nup - 1)})

\* the same region finished with one worker and with several
C2_Witness ==
    /\ phase = "returned"
    /\ ValidRegion
    /\ Len(issued) >= 2
    /\ num_threads >= 2
    /\ issued[1].by # issued[2].by

\* C3 (as claimed): the cursor belongs to one computation, so every call of
\* make_fractal in a process, not only the first, hands out bands covering
\* all rows and returns a grid whose every row has been written.
C3_CursorPerCall ==
    (phase = "returned" /\ ValidRegion) => BandsCoverRows /\ EveryRowWritten

(***************************************************************************)
(* Properties of the escape-time evaluators                                *)
(***************************************************************************)
\* C4 (as claimed): with max_iterations > 0 the evaluator returns 0 only
\* when the loop reached max_iterations; a point that has escaped, also one
\* that has escaped at the very first check, returns a count other than 0.
C4_ZeroOnlyAtCap ==
    (epc = "returned" /\ tf.max_iters > 0 /\ ret = 0) => iters = tf.max_iters

\* C5: for max_iterations = M the returned count is 0 or in 1..M-1, never M
C5_CountBelowCap ==
    epc = "returned" => (ret = 0 \/ (1 <= ret /\ ret <= tf.max_iters - 1))

\* the loop ran to the cap and 0 was returned in place of M
C5_Witness ==
    /\ epc = "returned"
    /\ tf.max_iters >= 2
    /\ iters = tf.max_iters
    /\ ret = 0

(***************************************************************************)
(* Properties of the formula compiler                                      *)
(***************************************************************************)
Str_zpcz == <<"z", "+", "c", "*", "z">>
Str_zmcmz == <<"z", "-", "c", "-", "z">>

SamplePoints == {Cx(-1, 1), Cx(2, 0), Cx(0, -2), Cx(3, 1)}

\* the position of the ')' closing a '(' at position 1, or 0
ClosingOfFirst(toks) ==
    LET closers == {k \in 2..Len(toks) :
                      toks[k].kind = "rp" /\ Depth(toks, k) = 1}
    IN IF toks # << >> /\ toks[1].kind = "lp" /\ closers # {}
         THEN CHOOSE k \in closers : \A j \in closers : k <= j
         ELSE 0

\* the formula is "(E) op F": a parenthesised group, an operator, an operand
IsGroupOpOperand(str) ==
    LET toks == Tokens(str)
        k == ClosingOfFirst(toks)
    IN /\ k > 0
       /\ k + 2 <= Len(toks)
       /\ toks[k + 1].kind = "op"
       /\ Denotes(SubSeq(toks, 2, k - 1)) # NoTree
       /\ Denotes(SubSeq(toks, k + 2, Len(toks))) # NoTree
       /\ Meaning(str) = Node(toks[k + 1].text,
                              <<Denotes(SubSeq(toks, 2, k - 1)),
                                Denotes(SubSeq(toks, k + 2, Len(toks)))>>)

\* C6 (as claimed): for a formula "(E) op F" the compiler returns a closure
\* whose value at every (z, c) is (value of E) op (value of F).
C6_GroupIsOneOperand ==
    (ppc = "done" /\ IsGroupOpOperand(formula)) =>
        LET m == Meaning(formula) IN
        /\ ~compiled.ex
        /\ \A z \in SamplePoints, c \in SamplePoints :
              Apply(compiled.f, z, c) = Apply(m, z, c)

\* C7: for every well-formed formula of z, c, numerals and + - * / ^
\* without parentheses, the compiler returns the closure that the grammar's
\* parse tree denotes: ^ binds tighter than * and /, these tighter than
\* binary + and -, each level associates to the left, a sign applies to
\* the factor that follows it.
C7_PrecedenceAndAssociativity ==
    ppc = "done" =>
        LET m == Meaning(formula) IN
        m # NoTree =>
            /\ ~compiled.ex
            /\ compiled.f = m
            /\ \A z \in SamplePoints, c \in SamplePoints :
                  Apply(compiled.f, z, c) = Apply(m, z, c)

\* "z+c*z" was compiled to z + (c*z)
C7_Witness ==
    /\ ppc = "done"
    /\ formula = Str_zpcz
    /\ ~compiled.ex
    /\ compiled.f = Node("+", <<identity_fn_z,
                                Node("*", <<identity_fn_c, identity_fn_z>>)>>)

\* what is left of the input after the parse, blanks skipped
Unconsumed(st) ==
    LET s1 == skip_whitespace([st EXCEPT !.ok = TRUE])
    IN SubSeq(s1.s, s1.pos, Len(s1.s))

\* C8 (as claimed): a closure is returned only when the whole formula has
\* been consumed; anything left where an operator was expected is a
\* ParseError.
C8_WholeInputConsumed ==
    (ppc = "done" /\ ~compiled.ex) => Unconsumed(compiled.st) = << >>

\* C9 (as claimed): a formula that begins with an alphabetic identifier
\* followed by '(' fails with a ParseError unless the identifier is one of
\* abs, exp, sin, cos, tan, asin, acos, atan, sqrt, real, imag.
C9_ExactNameSet ==
    LET toks == Tokens(formula) IN
    (/\ ppc = "done"
     /\ Len(toks) >= 2
     /\ toks[1].kind = "id"
     /\ toks[2].kind = "lp"
     /\ toks[1].text \notin FunctionNames)
        => compiled.ex

\* the tokens without the operators at their end
RECURSIVE StripOperators(_)
StripOperators(toks) ==
    IF toks # << >> /\ toks[Len(toks)].kind = "op"
      THEN StripOperators(Take(toks, Len(toks) - 1))
      ELSE toks

\* the formula is a well-formed formula (or nothing) followed by operators
\* that have no operand after them
EndsWithOperator(str) ==
    LET toks == Tokens(str) IN
    /\ toks # << >>
    /\ toks[Len(toks)].kind = "op"
    /\ (StripOperators(toks) = << >> \/ Denotes(StripOperators(toks)) # NoTree)

\* C10 (as claimed): a formula that ends with an operator that has no
\* operand after it fails with a ParseError; no closure is returned.
C10_TrailingOperatorFails ==
    (ppc = "done" /\ EndsWithOperator(formula)) => compiled.ex

\* a '(' standing where an operand may begin (a group) or after a function
\* name (a call), that no later ')' closes
UnmatchedOpen(toks) ==
    \E i \in 1..Len(toks) :
        /\ toks[i].kind = "lp"
        /\ \/ i = 1
           \/ toks[i - 1].kind \in {"op", "lp"}
           \/ toks[i - 1].kind = "id" /\ toks[i - 1].text \in FunctionNames
        /\ \A j \in i..Len(toks) : Depth(toks, j + 1) - Depth(toks, i) > 0

\* a function name that is not followed by '('
NameWithoutOpen(toks) ==
    \E i \in 1..Len(toks) :
        /\ toks[i].kind = "id"
        /\ toks[i].text \in FunctionNames
        /\ (i = Len(toks) \/ toks[i + 1].kind # "lp")

\* C11 (as claimed): a formula in which an opened '(' (of a group or of a
\* function call) has no matching ')', or in which a function name is not
\* followed by '(', fails with a ParseError; no closure is returned.
C11_MissingDelimiterFails ==
    (ppc = "done" /\ (UnmatchedOpen(Tokens(formula))
                        \/ NameWithoutOpen(Tokens(formula)))) => compiled.ex

\* the formula is one numeric literal that is not a numeral: two decimal
\* points, no digit, or an exponent sign that no digit follows
IsMalformedLiteral(str) ==
    LET toks == Tokens(str)
    IN /\ Len(toks) = 1
       /\ toks[1].kind = "num"
       /\ NumeralValue(toks[1].chars) = <<-1, 0>>

\* C12 (as claimed): a malformed numeric literal ("1.2.3", a lone ".", a
\* misplaced sign as in "1e-") makes the compile fail with a ParseError; no
\* closure is built from a prefix of the literal or from the value 0.
C12_MalformedLiteralFails ==
    (ppc = "done" /\ IsMalformedLiteral(formula)) => compiled.ex

DistinctKnots == \A i, j \in 1..Len(xs_) : i # j => xs_[i] # xs_[j]

\* C13 (as claimed): for a spline built from more than 2 points with
\* distinct x, evaluating at any knot x_k, the first, an interior one or
\* the last, succeeds and returns that knot's y_k.
C13_KnotRoundTrip ==
    (spc \in {"evaluated", "aborted"} /\ Len(xs_) > 2 /\ DistinctKnots) =>
        \A k \in 1..Len(xs_) :
            sx = xs_[k] =>
                /\ spc = "evaluated"
                /\ sret = [kind |-> "value", y |-> ys_[k]]

(***************************************************************************)
(* Properties of the domain decomposition, continued                       *)
(***************************************************************************)
Smaller(a, b) == IF a < b THEN a ELSE b
CeilingBand(na) == (points_per_thread + na - 1) \div na + 1

\* C14 (as claimed): each band claimed from the cursor spans
\* ceil(points_per_thread / columns) + 1 rows, for every column count,
\* also one that does not divide points_per_thread; only the last band is
\* shorter, clipped to the number of rows.
C14_BandIsCeilingPlusOne ==
    ValidRegion =>
        \A k \in 1..Len(issued) :
            issued[k].nup = Smaller(CeilingBand(nacross),
                                    nup - issued[k].first)

\* the steps of the whole region, and the point of row i and column j
RegionDx == FDiv(Float(upper_right.re - lower_left.re, nacross - 1),
                 nacross - 1)
RegionDy == FDiv(Float(upper_right.im - lower_left.im, nup - 1), nup - 1)
RegionReal(j) == FAdd(Float(lower_left.re, nacross - 1), FMul(RegionDx, j))
RegionImag(i) == FAdd(Float(lower_left.im, nup - 1), FMul(RegionDy, i))

\* some columns of a row: the first two and the last
SampleColumns == {0, 1, nacross - 1}

\* C15 (as claimed): whichever band a row falls in, the points of global
\* row i have imaginary part lower_left.imag + i*dy and real parts
\* lower_left.real + j*dx, with dx and dy the steps of the whole region,
\* and their results are stored at the indices i*columns + j.
C15_CoordinateMapping ==
    ValidRegion =>
        \A a \in DOMAIN values :
            LET i == values[a].pt.first + values[a].pt.i IN
            /\ a = i * nacross
            /\ values[a].hi = i * nacross + (nacross - 1)
            /\ values[a].c.im = RegionImag(i)
            /\ \A j \in SampleColumns :
                  FAdd(values[a].c.re0, FMul(values[a].c.dx, j))
                    = RegionReal(j)

InsideDecompose ==
    {t \in Threads : pc[t] \in {"dd_read", "dd_advance", "unlock"}}

\* C16: at most one worker is inside decompose_domain, the mutex is held
\* exactly by the worker between lock and unlock, and no worker holds it
\* while it evaluates the points of its band.
C16_MutexOnlyAroundCursor ==
    /\ Cardinality(InsideDecompose) <= 1
    /\ \A t \in Threads : t \in InsideDecompose <=> decomp_mutex = t
    /\ \A t \in Threads : pc[t] = "chk" => decomp_mutex # t

\* one worker evaluates its band while another is inside decompose_domain
C16_Witness ==
    \E t, u \in Threads :
        /\ pc[t] = "chk"
        /\ row_i[t] >= 1
        /\ pc[u] = "dd_advance"
        /\ decomp_mutex = u

\* C17 (as claimed): a worker that leaves its loop because an error was
\* raised does not leave the decomposition mutex locked.
C17_MutexReleasedOnUnwind ==
    \A t \in Threads : pc[t] = "terminated" => decomp_mutex # t

\* C18: make_fractal terminates: it returns, and only after every one of
\* the num_threads workers it created has seen the cursor at or beyond the
\* rows, left its loop and been joined; every claim moves the cursor
\* forward by at least one row.
C18_Terminates ==
    /\ <>(phase = "returned")
    /\ [](phase = "returned" =>
            /\ spawned = num_threads
            /\ joined = num_threads
            /\ domain_start >= nup
            /\ \A t \in 1..num_threads : pc[t] = "exit" /\ done[t])
    /\ [][domain_start' # domain_start => domain_start' >= domain_start + 1]_vars

\* a computation of several workers and several bands has returned
C18_Witness ==
    /\ phase = "returned"
    /\ num_threads = MaxThreads
    /\ joined = MaxThreads
    /\ Len(issued) >= 2

\* C19: within one computation the cursor never decreases, and once it is
\* at or beyond the rows a decompose_domain call reports done: no band is
\* issued and the cursor stays.
C19_CursorMonotone ==
    [][/\ domain_start' >= domain_start
       /\ domain_start >= nup =>
             /\ domain_start' = domain_start
             /\ issued' = issued
             /\ \A t \in Threads :
                   (pc[t] = "dd_read" /\ pc'[t] # "dd_read") => done'[t]]_vars

\* a worker found the cursor beyond the rows after other bands were issued
C19_Witness ==
    /\ domain_start >= nup
    /\ Len(issued) >= 2
    /\ \E t \in Threads : pc[t] = "unlock" /\ done[t]

\* C20 (as claimed): a configuration with fewer than 2 rows, fewer than 2
\* columns or fewer than 1 thread is rejected before any computation
\* starts: make_fractal never runs on it.
C20_BelowMinimumRejected ==
    (phase \notin {"config", "rejected"}) => ValidRegion

(***************************************************************************)
(* Properties of the knots of a Spline                                     *)
(***************************************************************************)
KnotsSorted == \A i \in 1..(Len(xs_) - 1) : xs_[i] <= xs_[i + 1]

\* the knot pairs (x, y) in the order they are kept
KnotPairs(xs, ys) == [i \in 1..Len(xs) |-> <<xs[i], ys[i]>>]
WithoutIndex(s, k) == SubSeq(s, 1, k - 1) \o SubSeq(s, k + 1, Len(s))

\* the number of knots that are not greater than x
KnotsUpTo(x) == Cardinality({i \in 1..Len(xs_) : xs_[i] <= x})

\* C23: after any sequence of add_point calls, in any order of x, xs_ is
\* in non-decreasing order and as long as ys_; every call adds its pair
\* (x, y) at one position of both vectors and leaves the other pairs and
\* their order alone, so ys_[i] stays the y added with xs_[i]; and
\* get_element_position returns the position of the first knot greater
\* than x.
C23_KnotsOrdered ==
    /\ [](/\ KnotsSorted
          /\ Len(xs_) = Len(ys_)
          /\ \A x \in 0..MaxKnotX :
                get_element_position(x, xs_, 0, Len(xs_)) = KnotsUpTo(x))
    /\ [][xs_' # xs_ \/ ys_' # ys_ =>
            /\ Len(xs_') = Len(xs_) + 1
            /\ Len(ys_') = Len(ys_) + 1
            /\ \E k \in 1..Len(xs_') :
                  WithoutIndex(KnotPairs(xs_', ys_'), k)
                      = KnotPairs(xs_, ys_)]_vars

\* three knots were added, with different values at the first two
C23_Witness ==
    /\ spc = "build"
    /\ Len(xs_) = 3
    /\ xs_[1] < xs_[2]
    /\ xs_[2] < xs_[3]
    /\ ys_[1] # ys_[2]

(***************************************************************************)
(* Properties of the domain decomposition, the height of a band            *)
(***************************************************************************)
\* C24 (as claimed): every band issued for a region with rows >= 2 and
\* columns >= 2 has at least 2 rows, also the clipped last band and bands
\* of a region with more than points_per_thread columns, so that the step
\* the point checker computes for the band, a quotient by nup - 1, is
\* never a quotient by zero.
C24_BandHasTwoRows ==
    ValidRegion =>
        /\ \A k \in 1..Len(issued) : issued[k].nup >= 2
        /\ \A t \in 1..num_threads :
              pc[t] = "chk" =>
                  /\ this_dom[t].nup - 1 # 0
                  /\ checker_dy(this_dom[t]).kind # "not finite"

(***************************************************************************)
(* Properties of the option file reader                                    *)
(***************************************************************************)
AllOptionsGot == \A k \in 1..5 : got_options[k]

\* C21 (as claimed): get_options returns a fully populated record or
\* throws a ParsingException; whatever is wrong with the file (a token of
\* the wrong type for an integer or string option, a bad numeric token, a
\* malformed colour triple or pair, a malformed formula) the exception is
\* a ParsingException, which main catches, and never one of another type.
C21_OnlyParsingException ==
    /\ opc \in {"thrown", "exit", "terminate"} => thrown = ParsingException
    /\ opc # "terminate"
    /\ opc = "returned" =>
          /\ AllOptionsGot
          /\ \A k \in 1..5 : options[k] # << >>

\* how often get_options has dispatched on option k (0: a keyword that
\* names no option)
Dispatched(k) == Cardinality({i \in 1..Len(seen) : seen[i] = k})

\* the option the stream continues with: the keyword at its head, whether
\* a ':' follows, and the place of the keyword in got_options (0 for a
\* keyword that names none)
KeywordAhead == istream # << >> /\ Head(istream).lex = "word"
ColonAhead == Len(istream) >= 2 /\ istream[2] = Symbol(":")
OptionAhead == OptionIndex(Head(istream).contents)

====
